---- MODULE Spec2Model ----
(***************************************************************************)
(* Product / image lifecycle of the FieldLife catalog backend.             *)
(*                                                                         *)
(* Two route modules exist for /api/products: the local-disk one           *)
(* (src/routes/productRoutes.js, multer diskStorage + fs.unlinkSync) and   *)
(* the remote-object one (src/unnamed/part_002, multer memoryStorage +     *)
(* imagekit.upload).  A server mounts one of them; `backend` says which.   *)
(*                                                                         *)
(* A request is a small process.  Its handler is cut at the awaited calls   *)
(* (findById, imagekit.upload, save, findByIdAndDelete, find, deleteMany): *)
(* one step is one awaited call together with the synchronous code that    *)
(* runs when it returns, up to the next awaited call.  The multer          *)
(* middleware is a step of its own, before the handler.  Every I/O call    *)
(* may fail.  req.body is drawn when the handler reads it.                 *)
(*                                                                         *)
(* JavaScript values are tuples of symbols: a string is the sequence of    *)
(* its symbols (" " is a whitespace character, any other symbol stands for *)
(* a run of non-blank characters), `undefined` and `null` are the two      *)
(* reserved one-symbol tuples below.                                       *)
(***************************************************************************)
EXTENDS Integers, Sequences, FiniteSets, TLC

(* ------------------------------ bounds -------------------------------- *)
\* Number of ObjectIds the repository hands out in one run.
MaxProducts == 2
\* Number of asset names generated in one run (multer filename / ImageKit url).
MaxUploads == 2

(* --------------------------- JavaScript values ------------------------ *)
UNDEF == <<"undefined">>
NULL == <<"null">>

\* JavaScript truthiness of undefined / null / a string.
Truthy(v) == v # UNDEF /\ v # NULL /\ v # <<>>

RECURSIVE TrimStart(_)
TrimStart(s) == IF s # <<>> /\ Head(s) = " " THEN TrimStart(Tail(s)) ELSE s

RECURSIVE TrimEnd(_)
TrimEnd(s) ==
  IF s # <<>> /\ s[Len(s)] = " " THEN TrimEnd(SubSeq(s, 1, Len(s) - 1)) ELSE s

\* String.prototype.trim
Trim(s) == TrimEnd(TrimStart(s))

(* ------------------------------ schema -------------------------------- *)
CategoryEnum ==
  { <<"Insecticides">>, <<"Fungicides">>, <<"Weedicides">>,
    <<"Plant", " ", "Growth", " ", "Regulators">> }

\* Mutant: the category has no enum.
SchemaValidWithoutEnum(doc) ==
  /\ Truthy(doc.name)
  /\ Truthy(doc.category)

\* mongoose validation of a document: name and category are `required`
\* (undefined, null and "" are rejected), category must be in the enum.
SchemaValid(doc) ==
  /\ Truthy(doc.name)
  /\ Truthy(doc.category)
  /\ doc.category \in CategoryEnum

(* --------------------------- request inputs --------------------------- *)
\* A whitespace-only name and a name to be trimmed; a missing required field
\* is the empty category, an absent optional field the undefined description.
NameInputs == { <<" ">>, <<" ", "BugX">> }
CategoryInputs == { <<>>, <<"Bogus">>, <<"Fungicides", " ">> }
DescriptionInputs == { UNDEF, <<>>, <<"kills", " ">> }
\* none: no file part; image: image/* within the size limit;
\* text: a mimetype not starting with image/; big: an image over the limit.
PayloadInputs == { "none", "image", "text", "big" }
Ops == { "create", "update", "delete", "deleteAll", "get" }
Ids == 1..MaxProducts
Bodies == [name : NameInputs, category : CategoryInputs, description : DescriptionInputs]
NoBody == [name |-> UNDEF, category |-> UNDEF, description |-> UNDEF]

(* --------------------------- asset references ------------------------- *)
\* `/uploads/${req.file.filename}`
LocalImageRef(filename) == <<"/uploads/", filename>>
\* path.join(__dirname, '..', product.image) names the file in the uploads
\* directory whose name follows the /uploads/ prefix.
LocalImagePath(image) == image[2]
\* uploadedImage.url
RemoteUrl(fileId) == <<"https://ik.imagekit.io/", fileId>>

\* The asset a stored image reference names (file name / remote file id).
AssetName(image) == image[2]

(* ------------------------------- state -------------------------------- *)
VARIABLES
  backend,   \* "local" | "remote": which route module serves /api/products
  env,       \* process.env.NODE_ENV
  db,        \* the `product` collection: ObjectId -> document
  files,     \* names of the assets present in the asset store
  removed,   \* names of the assets a handler has deleted (history)
  nextId,    \* ObjectIds handed out so far
  clock,     \* asset names generated so far (Date.now() ticks per upload)
  rq         \* the requests in flight, per connection

vars == <<backend, env, db, files, removed, nextId, clock, rq>>

\* The connections that carry requests.
Reqs == DOMAIN rq

NoDoc == [name |-> UNDEF, category |-> UNDEF, description |-> UNDEF, image |-> UNDEF]

IdleReq ==
  [ pc |-> "idle", op |-> "get", id |-> 1, idOk |-> TRUE, payload |-> "none",
    body |-> NoBody,
    hasFile |-> FALSE,      \* req.file is set
    filename |-> 0,         \* req.file.filename (local) / stored fileId (remote)
    stored |-> FALSE,       \* this request's asset was written to the store
    product |-> NoDoc,      \* the mongoose document in memory
    orig |-> NoDoc,         \* the document as fetched / constructed
    oldDeleted |-> FALSE,   \* this request unlinked the product's previous asset
    unlinkFailed |-> FALSE, \* an unlink issued by this request threw
    ioFailed |-> FALSE,     \* a database or asset-store call of this request threw
    cleanupFailed |-> FALSE, \* the catch block's unlink of req.file threw
    images |-> {},          \* DELETE /: assets of the products that were there
    status |-> 0,           \* HTTP status of the response, 0 = none yet
    at |-> "idle",          \* the step that sent the response
    idsBefore |-> 0,        \* ObjectIds handed out when the request arrived
    deletedProducts |-> 0, deletedImages |-> 0 ]

Init ==
  /\ backend \in { "local", "remote" }
  /\ env \in { "development", "production" }
  /\ db = [i \in {} |-> NoDoc]
  /\ files = {}
  /\ removed = {}
  /\ nextId = 0
  /\ clock = 0
  /\ rq = [r \in { "r1" } |-> IdleReq]

Active(r) == rq[r].pc \notin { "idle", "done" }
Quiet == \A r \in Reqs : ~Active(r)

\* res.status(code).json(...): the request is answered by the current step.
Answer(req, code) == [req EXCEPT !.pc = "done", !.status = code, !.at = req.pc]
Respond(r, code) == Answer(rq[r], code)
\* The answer of a catch block entered because an awaited I/O call threw.
Fail(r, code) == [Respond(r, code) EXCEPT !.ioFailed = TRUE]

\* Repository helpers: insert / replace one document, remove one document.
DbPut(d, id, doc) == [i \in DOMAIN d \cup {id} |-> IF i = id THEN doc ELSE d[i]]
DbRemove(d, id) == [i \in DOMAIN d \ {id} |-> d[i]]

(* ----------------------------- environment ---------------------------- *)
\* process.env.NODE_ENV is ambient state read on each call.
SetEnv ==
  /\ \A r \in Reqs : rq[r].pc = "idle"
  /\ env' \in { "development", "production" } \ {env}
  /\ UNCHANGED <<backend, db, files, removed, nextId, clock, rq>>

(* ------------------------------ requests ------------------------------ *)
\* A client sends one request on connection r.  Creates stop once MaxProducts
\* ids were handed out, image payloads once MaxUploads names were generated.
Arrive(r) ==
  /\ rq[r].pc = "idle"
  /\ \E op \in Ops, id \in Ids, idOk \in BOOLEAN, payload \in PayloadInputs :
       /\ op = "create" => nextId < MaxProducts
       /\ op \in { "create", "deleteAll" } => id = 1 /\ idOk
       /\ ~idOk => id = 1
       /\ op \notin { "create", "update" } => payload = "none"
       /\ payload = "image" => clock < MaxUploads
       /\ rq' = [rq EXCEPT ![r] =
                   [IdleReq EXCEPT !.pc = IF op \in { "create", "update" }
                                            THEN "upload" ELSE "handler",
                                   !.op = op, !.id = id, !.idOk = idOk,
                                   !.payload = payload, !.idsBefore = nextId]]
  /\ UNCHANGED <<backend, env, db, files, removed, nextId, clock>>

\* The response has been sent; the connection is free again.
Finish(r) ==
  /\ rq[r].pc = "done"
  /\ rq' = [rq EXCEPT ![r] = IdleReq]
  /\ UNCHANGED <<backend, env, db, files, removed, nextId, clock>>

(* -------------------- multer: upload.single('image') ------------------ *)
\* Mutant: the filter accepts every mimetype.
FileFilterAcceptsAll(payload) == TRUE

\* fileFilter: accept only image/* mimetypes.
FileFilter(payload) == payload # "text"
\* limits.fileSize = 5 MiB
WithinLimit(payload) == payload # "big"

\* Local routes, diskStorage: the file is on disk, under a generated name,
\* before the handler runs.  A rejected or oversized file leaves nothing
\* behind (multer removes what it wrote) and the error goes to the
\* application's error middleware, which answers err.status || 500.
LocalUpload(r) ==
  /\ backend = "local"
  /\ rq[r].pc = "upload"
  /\ \/ /\ rq[r].payload = "none"
        /\ rq' = [rq EXCEPT ![r].pc = "handler"]
        /\ UNCHANGED <<files, clock>>
     \/ /\ rq[r].payload # "none"
        /\ FileFilter(rq[r].payload) /\ WithinLimit(rq[r].payload)
        /\ clock' = clock + 1
        /\ files' = files \cup {clock'}
        /\ rq' = [rq EXCEPT ![r].pc = "handler", ![r].hasFile = TRUE,
                            ![r].filename = clock', ![r].stored = TRUE]
     \/ /\ rq[r].payload # "none"                      \* the disk write failed
        /\ FileFilter(rq[r].payload) /\ WithinLimit(rq[r].payload)
        /\ rq' = [rq EXCEPT ![r] = Fail(r, 500)]
        /\ UNCHANGED <<files, clock>>
     \/ /\ ~FileFilter(rq[r].payload) \/ ~WithinLimit(rq[r].payload)
        /\ rq' = [rq EXCEPT ![r] = Respond(r, 500)]
        /\ UNCHANGED <<files, clock>>
  /\ UNCHANGED <<backend, env, db, removed, nextId>>

\* Remote routes, memoryStorage: the accepted file is only a buffer.
RemoteUpload(r) ==
  /\ backend = "remote"
  /\ rq[r].pc = "upload"
  /\ \/ /\ rq[r].payload = "none"
        /\ rq' = [rq EXCEPT ![r].pc = "handler"]
     \/ /\ rq[r].payload # "none"
        /\ FileFilter(rq[r].payload) /\ WithinLimit(rq[r].payload)
        /\ rq' = [rq EXCEPT ![r].pc = "handler", ![r].hasFile = TRUE]
     \/ /\ ~FileFilter(rq[r].payload) \/ ~WithinLimit(rq[r].payload)
        /\ rq' = [rq EXCEPT ![r] = Respond(r, 500)]
  /\ UNCHANGED <<backend, env, db, files, removed, nextId, clock>>

(* ------------------------------ fs calls ------------------------------ *)
\* fs.unlinkSync(name): the file goes away, or the call throws (always so
\* when the file is missing) and nothing changes.  ok is what the
\* filesystem would answer for an existing file.
Unlinked(ok, name) == ok /\ name \in files

\* The effect of an unlink of `name` that went through or not.
Unlink(gone, name) ==
  /\ files' = IF gone THEN files \ {name} ELSE files
  /\ removed' = IF gone THEN removed \cup {name} ELSE removed

\* Mutant: the catch blocks leave the uploaded file where it is.
CatchCleanupSkipped(r, ok) == UNCHANGED <<files, removed>>

\* The try { fs.unlinkSync(req.file.path) } catch { log } of the catch blocks
\* of POST and PUT ("Delete uploaded file if ... fails").
CatchCleanup(r, ok) == Unlink(rq[r].hasFile /\ Unlinked(ok, rq[r].filename), rq[r].filename)

\* Response of a catch block, remembering whether its cleanup unlink threw.
Caught(r, ok, code) ==
  [Respond(r, code) EXCEPT
     !.unlinkFailed = @ \/ (rq[r].hasFile /\ ~Unlinked(ok, rq[r].filename)),
     !.cleanupFailed = rq[r].hasFile /\ ~Unlinked(ok, rq[r].filename)]

\* "Delete uploaded file if validation fails / product not found": an
\* unguarded unlinkSync before the early return with `code`.  When it throws,
\* the catch block runs instead: a second, guarded unlink and a 500.
DiscardAndReturn(r, req, code) ==
  IF rq[r].hasFile
    THEN \E ok \in BOOLEAN :
           IF Unlinked(ok, rq[r].filename)
             THEN /\ Unlink(TRUE, rq[r].filename)
                  /\ rq' = [rq EXCEPT ![r] = Answer(req, code)]
             ELSE \E ok2 \in BOOLEAN :
                    /\ CatchCleanup(r, ok2)
                    /\ rq' = [rq EXCEPT ![r] =
                                [Answer(req, 500) EXCEPT !.unlinkFailed = TRUE]]
    ELSE /\ rq' = [rq EXCEPT ![r] = Answer(req, code)]
         /\ UNCHANGED <<files, removed>>

(* ------------------ local routes: POST /api/products ------------------ *)
\* Mutant: the image reference is left out of the new document.
LocalProductDataNoImage(b, hasFile, filename) ==
  [ name |-> Trim(b.name),
    category |-> Trim(b.category),
    description |-> IF Truthy(b.description) THEN Trim(b.description) ELSE UNDEF,
    image |-> UNDEF ]

\* The object handed to new Product(...) by the local POST handler.
LocalProductData(b, hasFile, filename) ==
  [ name |-> Trim(b.name),
    category |-> Trim(b.category),
    description |-> IF Truthy(b.description) THEN Trim(b.description) ELSE UNDEF,
    image |-> IF hasFile THEN LocalImageRef(filename) ELSE UNDEF ]

\* Required-field check shared by both POST handlers: !name || !category.
MissingRequired(b) == ~Truthy(b.name) \/ ~Truthy(b.category)

\* Handler up to `await product.save()`.
LocalPostHandler(r) ==
  /\ backend = "local"
  /\ rq[r].pc = "handler" /\ rq[r].op = "create"
  /\ \E b \in Bodies :
       IF MissingRequired(b)
         THEN DiscardAndReturn(r, [rq[r] EXCEPT !.body = b], 400)
         ELSE /\ rq' = [rq EXCEPT ![r].pc = "save", ![r].body = b,
                                  ![r].product =
                                    LocalProductData(b, rq[r].hasFile, rq[r].filename)]
              /\ UNCHANGED <<files, removed>>
  /\ UNCHANGED <<backend, env, db, nextId, clock>>

\* product.save() of a new document: validation, then the insert; dbOk is
\* whether the database accepts the write.
InsertOk(dbOk, doc) == dbOk /\ SchemaValid(doc)

\* `await product.save()` and what follows it, catch block included.
LocalPostSave(r) ==
  /\ backend = "local"
  /\ rq[r].pc = "save" /\ rq[r].op = "create"
  /\ \E dbOk \in BOOLEAN :
       IF InsertOk(dbOk, rq[r].product)
         THEN /\ nextId' = nextId + 1
              /\ db' = DbPut(db, nextId', rq[r].product)
              /\ rq' = [rq EXCEPT ![r] = [Respond(r, 201) EXCEPT !.id = nextId']]
              /\ UNCHANGED <<files, removed>>
         ELSE /\ \E ok \in BOOLEAN :
                   /\ CatchCleanup(r, ok)
                   /\ rq' = [rq EXCEPT ![r] =
                               [Caught(r, ok, 500) EXCEPT
                                  !.ioFailed = SchemaValid(rq[r].product)]]
              /\ UNCHANGED <<db, nextId>>
  /\ UNCHANGED <<backend, env, clock>>

(* ----------------- local routes: PUT /api/products/:id ---------------- *)
\* Mutant: the field updates also reset the image.
ApplyFieldsResetImage(doc, b) ==
  [doc EXCEPT !.name = IF Truthy(b.name) THEN Trim(b.name) ELSE @,
              !.category = IF Truthy(b.category) THEN Trim(b.category) ELSE @,
              !.description = IF b.description # UNDEF THEN Trim(b.description) ELSE @,
              !.image = UNDEF]

\* Mutant: the description is guarded like the name, so "" does not clear it.
ApplyFieldsKeepingDescription(doc, b) ==
  [doc EXCEPT !.name = IF Truthy(b.name) THEN Trim(b.name) ELSE @,
              !.category = IF Truthy(b.category) THEN Trim(b.category) ELSE @,
              !.description = IF Truthy(b.description) THEN Trim(b.description) ELSE @]

\* "Update fields": the three assignments both PUT handlers make.
ApplyFields(doc, b) ==
  [doc EXCEPT !.name = IF Truthy(b.name) THEN Trim(b.name) ELSE @,
              !.category = IF Truthy(b.category) THEN Trim(b.category) ELSE @,
              !.description = IF b.description # UNDEF THEN Trim(b.description) ELSE @]

\* "Delete old image if exists" / "Delete image file if exists": the image
\* of the fetched product is unlinked when it is set and fs.existsSync
\* finds it.
ImageOnDisk(doc) == Truthy(doc.image) /\ LocalImagePath(doc.image) \in files

\* try { fs.unlinkSync(<image of doc>) } catch { log }, when ImageOnDisk.
UnlinkImage(doc, ok) ==
  IF ImageOnDisk(doc)
    THEN Unlink(ok, LocalImagePath(doc.image))
    ELSE UNCHANGED <<files, removed>>

\* Mutant: the image is replaced whether or not a file came with the PUT.
ReplacesImageAlways(r) == TRUE

\* "Update image if new one is uploaded": if (req.file).
ReplacesImage(r) == rq[r].hasFile

\* `await Product.findById(...)` and the code after it, up to the call of
\* product.save().
LocalPutFind(r) ==
  /\ backend = "local"
  /\ rq[r].pc = "handler" /\ rq[r].op = "update"
  /\ \/ \* findById throws: CastError for a malformed id, or a database error
        /\ \E ok \in BOOLEAN :
             /\ CatchCleanup(r, ok)
             /\ rq' = [rq EXCEPT ![r] =
                         [Caught(r, ok, IF ~rq[r].idOk THEN 404 ELSE 500) EXCEPT
                            !.ioFailed = rq[r].idOk]]
     \/ /\ rq[r].idOk /\ rq[r].id \notin DOMAIN db
        /\ DiscardAndReturn(r, rq[r], 404)
     \/ /\ rq[r].idOk /\ rq[r].id \in DOMAIN db
        /\ \E b \in Bodies :
             LET cur == db[rq[r].id]
                 doc == ApplyFields(cur, b) IN
               IF ReplacesImage(r)
                 THEN \E ok \in BOOLEAN :
                        /\ UnlinkImage(cur, ok)
                        /\ rq' = [rq EXCEPT ![r].pc = "save", ![r].body = b,
                                     ![r].orig = cur,
                                     ![r].oldDeleted = ImageOnDisk(cur) /\ ok,
                                     ![r].unlinkFailed = ImageOnDisk(cur) /\ ~ok,
                                     ![r].product =
                                       [doc EXCEPT !.image = LocalImageRef(rq[r].filename)]]
                 ELSE /\ rq' = [rq EXCEPT ![r].pc = "save", ![r].body = b,
                                          ![r].orig = cur, ![r].product = doc]
                      /\ UNCHANGED <<files, removed>>
  /\ UNCHANGED <<backend, env, db, nextId, clock>>

\* product.save() of a fetched document writes the paths that were modified.
Modified(cur, orig, doc) ==
  [f \in DOMAIN cur |-> IF doc[f] # orig[f] THEN doc[f] ELSE cur[f]]

\* Validation, then the write; a document that is gone cannot be saved.
UpdateOk(dbOk, id, doc) == dbOk /\ SchemaValid(doc) /\ id \in DOMAIN db

\* `await product.save()` of PUT and what follows it, catch block included.
LocalPutSave(r) ==
  /\ backend = "local"
  /\ rq[r].pc = "save" /\ rq[r].op = "update"
  /\ \E dbOk \in BOOLEAN :
       IF UpdateOk(dbOk, rq[r].id, rq[r].product)
         THEN /\ db' = [db EXCEPT ![rq[r].id] = Modified(@, rq[r].orig, rq[r].product)]
              /\ rq' = [rq EXCEPT ![r] = Respond(r, 200)]
              /\ UNCHANGED <<files, removed>>
         ELSE /\ \E ok \in BOOLEAN :
                   /\ CatchCleanup(r, ok)
                   /\ rq' = [rq EXCEPT ![r] =
                               [Caught(r, ok, 500) EXCEPT
                                  !.ioFailed = SchemaValid(rq[r].product)]]
              /\ UNCHANGED db
  /\ UNCHANGED <<backend, env, nextId, clock>>

(* ---------------- local routes: GET /api/products/:id ----------------- *)
\* findById and the response; a CastError answers 404.
LocalGet(r) ==
  /\ backend = "local"
  /\ rq[r].pc = "handler" /\ rq[r].op = "get"
  /\ \E dbOk \in BOOLEAN :
       rq' = [rq EXCEPT ![r] =
                IF ~rq[r].idOk THEN Respond(r, 404)
                ELSE IF ~dbOk THEN Fail(r, 500)
                ELSE IF rq[r].id \notin DOMAIN db THEN Respond(r, 404)
                ELSE [Respond(r, 200) EXCEPT !.orig = db[rq[r].id]]]
  /\ UNCHANGED <<backend, env, db, files, removed, nextId, clock>>

(* --------------- local routes: DELETE /api/products/:id --------------- *)
\* Mutant: the record is removed in the step that deletes the image file.
LocalDeleteFindRemovingRecord(r) ==
  /\ backend = "local"
  /\ rq[r].pc = "handler" /\ rq[r].op = "delete"
  /\ rq[r].idOk /\ rq[r].id \in DOMAIN db
  /\ \E ok \in BOOLEAN :
       LET cur == db[rq[r].id] IN
         /\ UnlinkImage(cur, ok)
         /\ db' = DbRemove(db, rq[r].id)
         /\ rq' = [rq EXCEPT ![r].pc = "remove", ![r].product = cur,
                             ![r].orig = cur,
                             ![r].oldDeleted = ImageOnDisk(cur) /\ ok,
                             ![r].unlinkFailed = ImageOnDisk(cur) /\ ~ok]
  /\ UNCHANGED <<backend, env, nextId, clock>>

\* `await Product.findById(...)`, "Delete image file if exists", up to the
\* call of findByIdAndDelete.
LocalDeleteFind(r) ==
  /\ backend = "local"
  /\ rq[r].pc = "handler" /\ rq[r].op = "delete"
  /\ \/ \* findById throws: CastError for a malformed id, or a database error
        /\ rq' = [rq EXCEPT ![r] =
                    [Respond(r, IF ~rq[r].idOk THEN 404 ELSE 500) EXCEPT
                       !.ioFailed = rq[r].idOk]]
        /\ UNCHANGED <<files, removed>>
     \/ /\ rq[r].idOk /\ rq[r].id \notin DOMAIN db
        /\ rq' = [rq EXCEPT ![r] = Respond(r, 404)]
        /\ UNCHANGED <<files, removed>>
     \/ /\ rq[r].idOk /\ rq[r].id \in DOMAIN db
        /\ \E ok \in BOOLEAN :
             LET cur == db[rq[r].id] IN
               /\ UnlinkImage(cur, ok)
               /\ rq' = [rq EXCEPT ![r].pc = "remove", ![r].product = cur,
                                   ![r].orig = cur,
                                   ![r].oldDeleted = ImageOnDisk(cur) /\ ok,
                                   ![r].unlinkFailed = ImageOnDisk(cur) /\ ~ok]
  /\ UNCHANGED <<backend, env, db, nextId, clock>>

\* Mutant: a failed unlink of the image aborts the delete with a 500.
LocalDeleteRemoveUnlessUnlinkFailed(r) ==
  /\ backend = "local"
  /\ rq[r].pc = "remove" /\ rq[r].op = "delete"
  /\ IF rq[r].unlinkFailed
       THEN /\ rq' = [rq EXCEPT ![r] = Respond(r, 500)]
            /\ UNCHANGED db
       ELSE \E dbOk \in BOOLEAN :
              IF dbOk
                THEN /\ db' = DbRemove(db, rq[r].id)
                     /\ rq' = [rq EXCEPT ![r] = Respond(r, 200)]
                ELSE /\ rq' = [rq EXCEPT ![r] = Fail(r, 500)]
                     /\ UNCHANGED db
  /\ UNCHANGED <<backend, env, files, removed, nextId, clock>>

\* `await Product.findByIdAndDelete(req.params.id)` and what follows it.
LocalDeleteRemove(r) ==
  /\ backend = "local"
  /\ rq[r].pc = "remove" /\ rq[r].op = "delete"
  /\ \E dbOk \in BOOLEAN :
       IF dbOk
         THEN /\ db' = DbRemove(db, rq[r].id)
              /\ rq' = [rq EXCEPT ![r] = Respond(r, 200)]
         ELSE /\ rq' = [rq EXCEPT ![r] = Fail(r, 500)]
              /\ UNCHANGED db
  /\ UNCHANGED <<backend, env, files, removed, nextId, clock>>

(* ----------------- local routes: DELETE /api/products ----------------- *)
\* Mutant: the production check is missing.
ProductionNever == FALSE

\* The guard both DELETE / handlers start with.
Production == env = "production"

\* The production check, `await Product.find({})` and products.forEach:
\* every image that exists is unlinked, the successes (gone) are counted.
LocalDeleteAllFind(r) ==
  /\ backend = "local"
  /\ rq[r].pc = "handler" /\ rq[r].op = "deleteAll"
  /\ \/ /\ Production
        /\ rq' = [rq EXCEPT ![r] = Respond(r, 403)]
        /\ UNCHANGED <<files, removed>>
     \/ /\ ~Production                                  \* find threw
        /\ rq' = [rq EXCEPT ![r] = Fail(r, 500)]
        /\ UNCHANGED <<files, removed>>
     \/ /\ ~Production
        /\ LET onDisk == { LocalImagePath(db[i].image) :
                             i \in { j \in DOMAIN db : ImageOnDisk(db[j]) } } IN
             \E gone \in SUBSET onDisk :
               /\ files' = files \ gone
               /\ removed' = removed \cup gone
               /\ rq' = [rq EXCEPT ![r].pc = "remove", ![r].images = onDisk,
                                   ![r].deletedImages = Cardinality(gone),
                                   ![r].oldDeleted = gone # {},
                                   ![r].unlinkFailed = gone # onDisk]
  /\ UNCHANGED <<backend, env, db, nextId, clock>>

\* `await Product.deleteMany({})` and the response.
LocalDeleteAllRemove(r) ==
  /\ backend = "local"
  /\ rq[r].pc = "remove" /\ rq[r].op = "deleteAll"
  /\ \E dbOk \in BOOLEAN :
       IF dbOk
         THEN /\ db' = [i \in {} |-> NoDoc]
              /\ rq' = [rq EXCEPT ![r] =
                          [Respond(r, 200) EXCEPT !.deletedProducts = Cardinality(DOMAIN db)]]
         ELSE /\ rq' = [rq EXCEPT ![r] = Fail(r, 500)]
              /\ UNCHANGED db
  /\ UNCHANGED <<backend, env, files, removed, nextId, clock>>

(* ------------------ remote routes: POST /api/products ----------------- *)
\* The object handed to new Product(...) by the remote POST handler.
RemoteProductData(b, imageUrl) ==
  [ name |-> Trim(b.name),
    category |-> Trim(b.category),
    description |-> IF b.description = UNDEF THEN UNDEF ELSE Trim(b.description),
    image |-> imageUrl ]

\* Handler up to its first await: imagekit.upload with a file, save without.
RemotePostHandler(r) ==
  /\ backend = "remote"
  /\ rq[r].pc = "handler" /\ rq[r].op = "create"
  /\ \E b \in Bodies :
       rq' = [rq EXCEPT ![r] =
                IF MissingRequired(b) THEN [Respond(r, 400) EXCEPT !.body = b]
                ELSE IF rq[r].hasFile THEN [rq[r] EXCEPT !.pc = "store", !.body = b]
                ELSE [rq[r] EXCEPT !.pc = "save", !.body = b,
                                   !.product = RemoteProductData(b, NULL)]]
  /\ UNCHANGED <<backend, env, db, files, removed, nextId, clock>>

\* Mutant: a failed upload is swallowed and the product is saved without image.
RemotePostStoreSwallowingFailure(r) ==
  /\ backend = "remote"
  /\ rq[r].pc = "store" /\ rq[r].op = "create"
  /\ \/ /\ clock' = clock + 1
        /\ files' = files \cup {clock'}
        /\ rq' = [rq EXCEPT ![r].pc = "save", ![r].filename = clock',
                            ![r].stored = TRUE,
                            ![r].product =
                              RemoteProductData(rq[r].body, RemoteUrl(clock'))]
     \/ /\ rq' = [rq EXCEPT ![r].pc = "save",
                            ![r].product = RemoteProductData(rq[r].body, NULL)]
        /\ UNCHANGED <<files, clock>>
  /\ UNCHANGED <<backend, env, db, removed, nextId>>

\* `await imagekit.upload(...)` of POST: the asset exists remotely under a
\* new url, or the call throws and the catch block answers 500.
RemotePostStore(r) ==
  /\ backend = "remote"
  /\ rq[r].pc = "store" /\ rq[r].op = "create"
  /\ \/ /\ clock' = clock + 1
        /\ files' = files \cup {clock'}
        /\ rq' = [rq EXCEPT ![r].pc = "save", ![r].filename = clock',
                            ![r].stored = TRUE,
                            ![r].product =
                              RemoteProductData(rq[r].body, RemoteUrl(clock'))]
     \/ /\ rq' = [rq EXCEPT ![r] = Fail(r, 500)]
        /\ UNCHANGED <<files, clock>>
  /\ UNCHANGED <<backend, env, db, removed, nextId>>

\* `await product.save()` of POST and what follows it; the catch block only
\* answers 500.
RemotePostSave(r) ==
  /\ backend = "remote"
  /\ rq[r].pc = "save" /\ rq[r].op = "create"
  /\ \E dbOk \in BOOLEAN :
       IF InsertOk(dbOk, rq[r].product)
         THEN /\ nextId' = nextId + 1
              /\ db' = DbPut(db, nextId', rq[r].product)
              /\ rq' = [rq EXCEPT ![r] = [Respond(r, 201) EXCEPT !.id = nextId']]
         ELSE /\ rq' = [rq EXCEPT ![r] =
                          [Respond(r, 500) EXCEPT !.ioFailed = SchemaValid(rq[r].product)]]
              /\ UNCHANGED <<db, nextId>>
  /\ UNCHANGED <<backend, env, files, removed, clock>>

(* ---------------- remote routes: PUT /api/products/:id ---------------- *)
\* findById, the field updates, up to the next await (upload or save).
RemotePutFind(r) ==
  /\ backend = "remote"
  /\ rq[r].pc = "handler" /\ rq[r].op = "update"
  /\ \/ rq' = [rq EXCEPT ![r] =                        \* findById threw
                 [Respond(r, 500) EXCEPT !.ioFailed = rq[r].idOk]]
     \/ /\ rq[r].idOk /\ rq[r].id \notin DOMAIN db
        /\ rq' = [rq EXCEPT ![r] = Respond(r, 404)]
     \/ /\ rq[r].idOk /\ rq[r].id \in DOMAIN db
        /\ \E b \in Bodies :
             rq' = [rq EXCEPT ![r].pc = IF ReplacesImage(r) THEN "store" ELSE "save",
                              ![r].body = b,
                              ![r].product = ApplyFields(db[rq[r].id], b),
                              ![r].orig = db[rq[r].id]]
  /\ UNCHANGED <<backend, env, db, files, removed, nextId, clock>>

\* `await imagekit.upload(...)` of PUT and `product.image = uploadedImage.url`.
RemotePutStore(r) ==
  /\ backend = "remote"
  /\ rq[r].pc = "store" /\ rq[r].op = "update"
  /\ \/ /\ clock' = clock + 1
        /\ files' = files \cup {clock'}
        /\ rq' = [rq EXCEPT ![r].pc = "save", ![r].filename = clock',
                            ![r].stored = TRUE,
                            ![r].product.image = RemoteUrl(clock')]
     \/ /\ rq' = [rq EXCEPT ![r] = Fail(r, 500)]
        /\ UNCHANGED <<files, clock>>
  /\ UNCHANGED <<backend, env, db, removed, nextId>>

\* `await product.save()` of PUT and the response.
RemotePutSave(r) ==
  /\ backend = "remote"
  /\ rq[r].pc = "save" /\ rq[r].op = "update"
  /\ \E dbOk \in BOOLEAN :
       IF UpdateOk(dbOk, rq[r].id, rq[r].product)
         THEN /\ db' = [db EXCEPT ![rq[r].id] = Modified(@, rq[r].orig, rq[r].product)]
              /\ rq' = [rq EXCEPT ![r] = Respond(r, 200)]
         ELSE /\ rq' = [rq EXCEPT ![r] =
                          [Respond(r, 500) EXCEPT !.ioFailed = SchemaValid(rq[r].product)]]
              /\ UNCHANGED db
  /\ UNCHANGED <<backend, env, files, removed, nextId, clock>>

(* ------------- remote routes: GET and DELETE /api/products/:id -------- *)
\* GET /:id: any throw of findById answers 500.
RemoteGet(r) ==
  /\ backend = "remote"
  /\ rq[r].pc = "handler" /\ rq[r].op = "get"
  /\ \E dbOk \in BOOLEAN :
       rq' = [rq EXCEPT ![r] =
                IF ~rq[r].idOk \/ ~dbOk
                  THEN [Respond(r, 500) EXCEPT !.ioFailed = rq[r].idOk]
                ELSE IF rq[r].id \notin DOMAIN db THEN Respond(r, 404)
                ELSE [Respond(r, 200) EXCEPT !.orig = db[rq[r].id]]]
  /\ UNCHANGED <<backend, env, db, files, removed, nextId, clock>>

\* findById of DELETE /:id, up to the call of findByIdAndDelete.
RemoteDeleteFind(r) ==
  /\ backend = "remote"
  /\ rq[r].pc = "handler" /\ rq[r].op = "delete"
  /\ \E dbOk \in BOOLEAN :
       rq' = [rq EXCEPT ![r] =
                IF ~rq[r].idOk \/ ~dbOk
                  THEN [Respond(r, 500) EXCEPT !.ioFailed = rq[r].idOk]
                ELSE IF rq[r].id \notin DOMAIN db THEN Respond(r, 404)
                ELSE [rq[r] EXCEPT !.pc = "remove", !.product = db[rq[r].id],
                                   !.orig = db[rq[r].id]]]
  /\ UNCHANGED <<backend, env, db, files, removed, nextId, clock>>

\* `await Product.findByIdAndDelete(req.params.id)` and the response.
RemoteDeleteRemove(r) ==
  /\ backend = "remote"
  /\ rq[r].pc = "remove" /\ rq[r].op = "delete"
  /\ \E dbOk \in BOOLEAN :
       IF dbOk
         THEN /\ db' = DbRemove(db, rq[r].id)
              /\ rq' = [rq EXCEPT ![r] = Respond(r, 200)]
         ELSE /\ rq' = [rq EXCEPT ![r] = Fail(r, 500)]
              /\ UNCHANGED db
  /\ UNCHANGED <<backend, env, files, removed, nextId, clock>>

(* ---------------- remote routes: DELETE /api/products ----------------- *)
\* The whole handler: production check, deleteMany, response.
RemoteDeleteAll(r) ==
  /\ backend = "remote"
  /\ rq[r].pc = "handler" /\ rq[r].op = "deleteAll"
  /\ \E dbOk \in BOOLEAN :
       IF ~Production /\ dbOk
         THEN /\ db' = [i \in {} |-> NoDoc]
              /\ rq' = [rq EXCEPT ![r] =
                          [Respond(r, 200) EXCEPT
                             !.deletedProducts = Cardinality(DOMAIN db),
                             !.images = { AssetName(db[i].image) :
                                            i \in { j \in DOMAIN db : Truthy(db[j].image) } }]]
         ELSE /\ rq' = [rq EXCEPT ![r] =
                          IF Production THEN Respond(r, 403) ELSE Fail(r, 500)]
              /\ UNCHANGED db
  /\ UNCHANGED <<backend, env, files, removed, nextId, clock>>

(* --------------------------- specification ---------------------------- *)
\* One step of the request on connection r.
Step(r) ==
  \/ LocalUpload(r) \/ LocalPostHandler(r) \/ LocalPostSave(r)
  \/ LocalPutFind(r) \/ LocalPutSave(r) \/ LocalGet(r)
  \/ LocalDeleteFind(r) \/ LocalDeleteRemove(r)
  \/ LocalDeleteAllFind(r) \/ LocalDeleteAllRemove(r)
  \/ RemoteUpload(r) \/ RemotePostHandler(r) \/ RemotePostStore(r) \/ RemotePostSave(r)
  \/ RemotePutFind(r) \/ RemotePutStore(r) \/ RemotePutSave(r) \/ RemoteGet(r)
  \/ RemoteDeleteFind(r) \/ RemoteDeleteRemove(r) \/ RemoteDeleteAll(r)
  \/ Finish(r)

\* Requests served one at a time, on one connection.
Next ==
  \/ SetEnv
  \/ Quiet /\ Arrive("r1")
  \/ Step("r1")

Spec == Init /\ [][Next]_vars

(* ------------------ local routes without I/O failures ----------------- *)
\* No findById, save, delete, disk write or unlink of a request in flight
\* has thrown: every call that throws is recorded by the step that makes it.
NoFailure ==
  \A r \in Reqs :
    ~rq[r].ioFailed /\ ~rq[r].unlinkFailed /\ ~rq[r].cleanupFailed

\* The application mounted on the local-disk routes.
LocalInit == Init /\ backend = "local"

\* The local handlers served one at a time, each step taken with every
\* filesystem and database call going through; what the request carries
\* (fields, ids, payload) is as free as before.
LocalNoFailureNext ==
  \/ SetEnv
  \/ Quiet /\ Arrive("r1")
  \/ LocalUpload("r1") /\ NoFailure'
  \/ LocalPostHandler("r1") /\ NoFailure'
  \/ LocalPostSave("r1") /\ NoFailure'
  \/ LocalPutFind("r1") /\ NoFailure'
  \/ LocalPutSave("r1") /\ NoFailure'
  \/ LocalGet("r1") /\ NoFailure'
  \/ LocalDeleteFind("r1") /\ NoFailure'
  \/ LocalDeleteRemove("r1") /\ NoFailure'
  \/ LocalDeleteAllFind("r1") /\ NoFailure'
  \/ LocalDeleteAllRemove("r1") /\ NoFailure'
  \/ Finish("r1")

LocalNoFailureSpec == LocalInit /\ [][LocalNoFailureNext]_vars

(* ------------------------ concurrent updates -------------------------- *)
\* Asset names are numbered in the order they are generated.  Served one at
\* a time, two uploads are more than a millisecond apart and Date.now()
\* gives each a new name.  Two requests in flight can reach the name
\* generation within the same millisecond: the timestamp is then the same,
\* and the name is the same when the random component is (local routes), or
\* always (remote routes, `product-${Date.now()}.jpg`).

\* Another request generated the latest name and none of its awaited calls
\* has returned since: the clock may still show the same millisecond.
SameMillisecond(r, pcAfter) ==
  \E o \in Reqs \ {r} :
    rq[o].stored /\ rq[o].filename = clock /\ rq[o].pc = pcAfter

\* storage.filename gives the name another upload was just given, and the
\* disk storage writes the file over that upload's file.
LocalUploadClash(r) ==
  /\ backend = "local"
  /\ rq[r].pc = "upload"
  /\ rq[r].payload # "none"
  /\ FileFilter(rq[r].payload) /\ WithinLimit(rq[r].payload)
  /\ SameMillisecond(r, "handler")
  /\ files' = files \cup {clock}
  /\ rq' = [rq EXCEPT ![r].pc = "handler", ![r].hasFile = TRUE,
                      ![r].filename = clock, ![r].stored = TRUE]
  /\ UNCHANGED <<backend, env, db, removed, nextId, clock>>

\* imagekit.upload of PUT is passed the fileName another upload was just
\* passed; the asset is filed under the name the handler gives it.
RemotePutStoreClash(r) ==
  /\ backend = "remote"
  /\ rq[r].pc = "store" /\ rq[r].op = "update"
  /\ SameMillisecond(r, "save")
  /\ files' = files \cup {clock}
  /\ rq' = [rq EXCEPT ![r].pc = "save", ![r].filename = clock,
                      ![r].stored = TRUE,
                      ![r].product.image = RemoteUrl(clock)]
  /\ UNCHANGED <<backend, env, db, removed, nextId, clock>>

\* A product stored by an earlier create, without or with an image, and
\* two connections.
ConcInit ==
  /\ backend \in { "local", "remote" }
  /\ env = "development"
  /\ \E hasImage \in BOOLEAN :
       /\ clock = IF hasImage THEN 1 ELSE 0
       /\ files = IF hasImage THEN {1} ELSE {}
       /\ db = [i \in {1} |->
                  [ name |-> <<"BugX">>, category |-> <<"Fungicides">>,
                    description |-> UNDEF,
                    image |-> IF hasImage
                                THEN IF backend = "local" THEN LocalImageRef(1)
                                                          ELSE RemoteUrl(1)
                                ELSE IF backend = "local" THEN UNDEF ELSE NULL ]]
  /\ removed = {}
  /\ nextId = 1
  /\ rq = [r \in { "r1", "r2" } |-> IdleReq]

\* PUT /api/products/1 with an image file arrives on connection r.
ArriveUpdate(r) ==
  /\ Arrive(r)
  /\ rq'[r].op = "update" /\ rq'[r].id = 1 /\ rq'[r].idOk
  /\ rq'[r].payload = "image"

\* One step of the update on connection r.
UpdateStep(r) ==
  \/ LocalUpload(r) \/ LocalUploadClash(r) \/ LocalPutFind(r) \/ LocalPutSave(r)
  \/ RemoteUpload(r) \/ RemotePutFind(r) \/ RemotePutStore(r)
  \/ RemotePutStoreClash(r) \/ RemotePutSave(r)
  \/ Finish(r)

\* Two connections, their requests interleaved at the awaited calls.
ConcNext ==
  \/ ArriveUpdate("r1") \/ UpdateStep("r1")
  \/ ArriveUpdate("r2") \/ UpdateStep("r2")

ConcSpec == ConcInit /\ [][ConcNext]_vars

(* ============================== properties ============================ *)
Done(r) == rq[r].pc = "done"
\* The reference the serving route module writes for the asset `name`.
RefOf(name) == IF backend = "local" THEN LocalImageRef(name) ELSE RemoteUrl(name)
Mutating == { "create", "update", "delete", "deleteAll" }

(* C1: once a create, update, delete or delete-all has been answered (with *)
(* success or with an error), no stored product holds an image reference   *)
(* to an asset that a handler deleted.                                     *)
C1_NoReferenceToDeletedAsset ==
  \A r \in Reqs :
    Done(r) /\ rq[r].op \in Mutating =>
      \A id \in DOMAIN db :
        Truthy(db[id].image) => AssetName(db[id].image) \notin removed

(* C2: in an update that carries a file, the new asset is stored before    *)
(* the old one is deleted: whenever an update has removed the product's    *)
(* previous asset, its own asset has been stored, and it is in the store   *)
(* while the save is pending.                                              *)
C2_NewStoredBeforeOldDeleted ==
  \A r \in Reqs :
    rq[r].op = "update" /\ rq[r].oldDeleted =>
      /\ rq[r].stored
      /\ rq[r].pc = "save" => rq[r].filename \in files

C2_Witness ==
  \E r \in Reqs :
    /\ rq[r].op = "update" /\ rq[r].pc = "save"
    /\ rq[r].oldDeleted /\ rq[r].stored
    /\ AssetName(rq[r].orig.image) \notin files

(* C3: a successful update with a file of a product that has an image, in  *)
(* which no call failed, leaves the old asset absent from the store, the   *)
(* new asset present, and the record's image equal to the new asset's      *)
(* reference.                                                              *)
C3_UpdateReplacesAsset ==
  \A r \in Reqs :
    ( /\ Done(r) /\ rq[r].op = "update" /\ rq[r].status = 200
      /\ rq[r].hasFile /\ Truthy(rq[r].orig.image)
      /\ ~rq[r].unlinkFailed ) =>
      /\ AssetName(rq[r].orig.image) \notin files
      /\ rq[r].filename \in files
      /\ db[rq[r].id].image = RefOf(rq[r].filename)

(* C4: a create answered 201 with a file has its asset in the store and    *)
(* the new record's image equal to that asset's reference; answered 201    *)
(* without a file, the new record has no image.                            *)
C4_CreateStoresImage ==
  \A r \in Reqs :
    Done(r) /\ rq[r].op = "create" /\ rq[r].status = 201 =>
      /\ rq[r].id \in DOMAIN db
      /\ IF rq[r].payload # "none"
           THEN /\ rq[r].stored /\ rq[r].filename \in files
                /\ db[rq[r].id].image = RefOf(rq[r].filename)
           ELSE ~Truthy(db[rq[r].id].image)

C4_Witness ==
  \E r \in Reqs :
    /\ Done(r) /\ rq[r].op = "create" /\ rq[r].status = 201
    /\ rq[r].payload = "image" /\ rq[r].filename \in files
    /\ db[rq[r].id].image = RefOf(rq[r].filename)

(* C5: a create whose name or category is missing or empty is answered     *)
(* 400, creates no record, and leaves no asset of its own in the store.    *)
C5_InvalidCreateRejected ==
  \A r \in Reqs :
    ( /\ Done(r) /\ rq[r].op = "create" /\ rq[r].at # "upload"
      /\ \/ rq[r].body.name \in { UNDEF, <<>> }
         \/ rq[r].body.category \in { UNDEF, <<>> } ) =>
      /\ rq[r].status = 400
      /\ nextId = rq[r].idsBefore
      /\ rq[r].stored => rq[r].filename \notin files

(* C6: when a create stored its asset and the record write then failed,    *)
(* the answer is 500, no record was created, and the stored asset is gone  *)
(* unless the compensating deletion itself failed.                         *)
C6_FailedCreateCompensated ==
  \A r \in Reqs :
    ( /\ Done(r) /\ rq[r].op = "create" /\ rq[r].at = "save"
      /\ rq[r].stored /\ rq[r].status # 201 ) =>
      /\ rq[r].status = 500
      /\ nextId = rq[r].idsBefore
      /\ ~rq[r].unlinkFailed => rq[r].filename \notin files

(* C7: a delete that found its product and whose database calls went       *)
(* through answers success, whether or not deleting the asset failed, and  *)
(* a delete answered with success found a record and left none; a get or   *)
(* delete of an id that has no record (such as a deleted one) is never     *)
(* answered with success, and is answered 404 unless the database call     *)
(* itself failed.                                                          *)
C7_DeleteRemovesRecord ==
  \A r \in Reqs :
    Done(r) =>
      /\ rq[r].op = "delete" /\ rq[r].status = 200 =>
           rq[r].orig # NoDoc /\ rq[r].id \notin DOMAIN db
      /\ ( /\ rq[r].op = "delete" /\ rq[r].orig # NoDoc
           /\ ~rq[r].ioFailed ) => rq[r].status = 200
      /\ ( /\ rq[r].op \in { "get", "delete" } /\ rq[r].idOk
           /\ rq[r].orig = NoDoc /\ ~rq[r].ioFailed ) => rq[r].status = 404
      /\ ( /\ rq[r].op \in { "get", "delete" }
           /\ rq[r].id \notin DOMAIN db ) =>
             rq[r].status # 200 \/ (rq[r].op = "delete" /\ rq[r].orig # NoDoc)

C7_Witness ==
  \E r \in Reqs :
    /\ Done(r) /\ rq[r].op = "delete" /\ rq[r].status = 200
    /\ rq[r].unlinkFailed /\ rq[r].id \notin DOMAIN db
    /\ AssetName(rq[r].orig.image) \in files

(* C8: a delete answered with success, with no failed call, of a product   *)
(* that has an image leaves the record gone and that image's asset absent  *)
(* from the store.                                                         *)
C8_DeleteRemovesAsset ==
  \A r \in Reqs :
    ( /\ Done(r) /\ rq[r].op = "delete" /\ rq[r].status = 200
      /\ ~rq[r].unlinkFailed /\ Truthy(rq[r].orig.image) ) =>
      /\ rq[r].id \notin DOMAIN db
      /\ AssetName(rq[r].orig.image) \notin files

(* C9: a delete-all called while NODE_ENV is production is answered 403    *)
(* and leaves every record and every asset in place; called while it is    *)
(* not production it is not answered 403, whatever was answered before.    *)
C9_ProductionGuard ==
  [][ \A r \in Reqs :
        rq[r].op = "deleteAll" /\ rq[r].pc = "handler" /\ rq'[r] # rq[r] =>
          IF env = "production"
            THEN /\ rq'[r].pc = "done" /\ rq'[r].status = 403
                 /\ db' = db /\ files' = files
            ELSE rq'[r].status # 403 ]_vars

C9_Witness ==
  \E r \in Reqs :
    /\ Done(r) /\ rq[r].op = "deleteAll" /\ rq[r].status = 403
    /\ env = "production"
    /\ DOMAIN db # {} /\ files # {}

(* C10: a stored record's image changes only in an update that carries a   *)
(* file, and then to a non-empty reference; a record is born with an image *)
(* only in a create that carries a file; no step of an update without a    *)
(* file changes any record's image or the asset store.                     *)
C10_ImageChangesOnlyWithPayload ==
  [][ /\ \A id \in DOMAIN db \cap DOMAIN db' :
           db'[id].image # db[id].image =>
             /\ Truthy(db'[id].image)
             /\ \E r \in Reqs : /\ rq[r].op = "update" /\ rq[r].id = id
                                /\ rq[r].payload = "image"
      /\ \A id \in DOMAIN db' \ DOMAIN db :
           Truthy(db'[id].image) =>
             \E r \in Reqs : rq[r].op = "create" /\ rq[r].payload = "image"
      /\ \A r \in Reqs :
           rq[r].op = "update" /\ rq[r].payload = "none" /\ Active(r) =>
             /\ files' = files
             /\ DOMAIN db' = DOMAIN db
             /\ \A id \in DOMAIN db : db'[id].image = db[id].image ]_vars

C10_Witness ==
  \E r \in Reqs :
    /\ Done(r) /\ rq[r].op = "update" /\ rq[r].payload = "none"
    /\ rq[r].status = 200
    /\ db[rq[r].id] # rq[r].orig
    /\ Truthy(rq[r].orig.image) /\ db[rq[r].id].image = rq[r].orig.image
    /\ AssetName(rq[r].orig.image) \in files

(* C11 (as claimed): when an update with a file stored its new asset and   *)
(* the save then failed, the request is answered with an error and the new *)
(* asset is still in the store.                                            *)
C11_FailedUpdateLeavesOrphan ==
  \A r \in Reqs :
    ( /\ Done(r) /\ rq[r].op = "update" /\ rq[r].at = "save"
      /\ rq[r].stored /\ rq[r].status # 200 ) =>
      /\ rq[r].status >= 400
      /\ rq[r].filename \in files

(* C11 (amended): when an update with a file stored its new asset and the  *)
(* save then failed, the request is answered 500; the remote routes leave  *)
(* the new asset in the store, the local routes delete it in the catch     *)
(* block, so that it stays only when that deletion itself failed.          *)
C11_FailedUpdateNewAsset ==
  \A r \in Reqs :
    ( /\ Done(r) /\ rq[r].op = "update" /\ rq[r].at = "save"
      /\ rq[r].stored /\ rq[r].status # 200 ) =>
      /\ rq[r].status = 500
      /\ IF backend = "remote"
           THEN rq[r].filename \in files
           ELSE rq[r].filename \in files <=> rq[r].cleanupFailed

C11_Witness ==
  \E r \in Reqs :
    /\ Done(r) /\ rq[r].op = "update" /\ rq[r].at = "save"
    /\ rq[r].stored /\ rq[r].status = 500
    /\ backend = "local" /\ ~rq[r].cleanupFailed
    /\ rq[r].filename \notin files

(* C12: the failure of a cleanup step never changes the answer: a create   *)
(* that fails validation is answered 400, an update of an id that has no   *)
(* record 404, a create whose save failed 500, and a delete or delete-all  *)
(* whose database calls went through 200, whether or not an unlink issued  *)
(* by the request threw.                                                   *)
C12_CleanupNeverEscalates ==
  \A r \in Reqs :
    Done(r) =>
      /\ ( /\ rq[r].op = "create" /\ rq[r].at = "handler"
           /\ MissingRequired(rq[r].body) ) => rq[r].status = 400
      /\ ( /\ rq[r].op = "update" /\ rq[r].at = "handler"
           /\ rq[r].idOk /\ ~rq[r].ioFailed ) => rq[r].status = 404
      /\ ( /\ rq[r].op = "create" /\ rq[r].at = "save"
           /\ rq[r].status # 201 ) => rq[r].status = 500
      /\ ( /\ rq[r].op = "delete" /\ rq[r].orig # NoDoc
           /\ ~rq[r].ioFailed ) => rq[r].status = 200
      /\ ( /\ rq[r].op = "deleteAll" /\ rq[r].at = "remove"
           /\ ~rq[r].ioFailed ) => rq[r].status = 200

(* C13: an update of a well-formed id that has no record, whose lookup     *)
(* went through, is answered 404, leaves no asset of its own in the store  *)
(* and creates no record.                                                  *)
C13_UpdateOfMissingIsNotFound ==
  \A r \in Reqs :
    ( /\ Done(r) /\ rq[r].op = "update" /\ rq[r].at = "handler"
      /\ rq[r].idOk /\ ~rq[r].ioFailed ) =>
      /\ rq[r].status = 404
      /\ rq[r].stored => rq[r].filename \notin files
      /\ nextId = rq[r].idsBefore
      /\ rq[r].id \notin DOMAIN db

(* C14: in a create, the asset is stored before the record is written: a  *)
(* create with a file that waits for its save has stored its asset, and a  *)
(* create whose store call failed is answered 500 by that step, without    *)
(* its asset in the store and without a new record.                        *)
C14_StoreBeforeWrite ==
  \A r \in Reqs :
    rq[r].op = "create" =>
      /\ rq[r].pc = "save" /\ rq[r].hasFile =>
           rq[r].stored /\ rq[r].filename \in files
      /\ ( /\ Done(r) /\ rq[r].payload = "image" /\ ~rq[r].stored
           /\ rq[r].at \in { "upload", "store" } ) =>
             /\ rq[r].status = 500
             /\ nextId = rq[r].idsBefore
      /\ Done(r) /\ rq[r].status = 201 /\ rq[r].hasFile => rq[r].stored

C14_Witness ==
  \E r \in Reqs :
    /\ Done(r) /\ rq[r].op = "create" /\ rq[r].payload = "image"
    /\ rq[r].at = "store" /\ ~rq[r].stored
    /\ rq[r].status = 500 /\ nextId = rq[r].idsBefore
    /\ ~MissingRequired(rq[r].body)

(* C15: a delete-all answered with success leaves no record, reports as    *)
(* deleted images the assets of the removed records that are gone, and     *)
(* leaves none of those assets in the store unless its deletion failed.    *)
C15_DeleteAllRemovesEverything ==
  \A r \in Reqs :
    Done(r) /\ rq[r].op = "deleteAll" /\ rq[r].status = 200 =>
      /\ DOMAIN db = {}
      /\ rq[r].deletedImages = Cardinality(rq[r].images \ files)
      /\ ~rq[r].unlinkFailed => rq[r].images \cap files = {}

(* C16: a create or update whose payload is not an image, or is larger    *)
(* than the size limit, is rejected by the step that receives it: it is    *)
(* answered with an error, nothing of it is stored, and no record, asset   *)
(* or id changes.                                                          *)
C16_RejectedPayloadLeavesNothing ==
  [][ \A r \in Reqs :
        ( /\ rq[r].op \in { "create", "update" }
          /\ rq[r].payload \in { "text", "big" }
          /\ rq[r].pc = "upload" /\ rq'[r] # rq[r] ) =>
          /\ rq'[r].pc = "done" /\ rq'[r].status >= 400
          /\ ~rq'[r].stored /\ ~rq'[r].hasFile
          /\ files' = files /\ db' = db /\ nextId' = nextId ]_vars

C16_Witness ==
  \E r \in Reqs :
    /\ Done(r) /\ rq[r].op = "update" /\ rq[r].payload = "text"
    /\ rq[r].at = "upload" /\ rq[r].status = 500
    /\ rq[r].id \in DOMAIN db /\ Truthy(db[rq[r].id].image)
    /\ files = { AssetName(db[rq[r].id].image) }

C20_StoredRecordsValid ==
  \A id \in DOMAIN db :
    /\ Truthy(db[id].name)
    /\ Trim(db[id].name) = db[id].name
    /\ db[id].category \in CategoryEnum

C20_Witness ==
  \E r \in Reqs :
    /\ Done(r) /\ rq[r].op = "update" /\ rq[r].at = "save"
    /\ rq[r].body.name = <<" ">> /\ rq[r].body.category = <<"Bogus">>
    /\ rq[r].status = 500
    /\ rq[r].id \in DOMAIN db /\ db[rq[r].id] = rq[r].orig
    /\ db[rq[r].id].name = <<"BugX">>

(* C18: when two updates of the same product, each with a file, have both *)
(* been answered with success, the record's image is the reference one of  *)
(* them wrote and the asset it names is in the store.                      *)
C18_ConcurrentUpdatesKeepLiveImage ==
  \A r1, r2 \in Reqs :
    ( /\ r1 # r2 /\ Done(r1) /\ Done(r2)
      /\ rq[r1].op = "update" /\ rq[r2].op = "update"
      /\ rq[r1].id = rq[r2].id
      /\ rq[r1].hasFile /\ rq[r2].hasFile
      /\ rq[r1].status = 200 /\ rq[r2].status = 200 ) =>
      /\ db[rq[r1].id].image \in { RefOf(rq[r1].filename), RefOf(rq[r2].filename) }
      /\ AssetName(db[rq[r1].id].image) \in files

(* C19: two requests that have stored an asset were given different asset  *)
(* names.                                                                  *)
C19_DistinctAssetNames ==
  \A r1, r2 \in Reqs :
    r1 # r2 /\ rq[r1].stored /\ rq[r2].stored =>
      rq[r1].filename # rq[r2].filename

(* C21: in a delete of one product the asset is removed, if at all, by the *)
(* step before the one that removes the record, while the record is still  *)
(* stored, and the step that removes the record touches no asset; when the *)
(* record deletion fails the request is answered 500 and the record is     *)
(* stored as it was fetched, its image naming an asset that is no longer   *)
(* in the store if the asset step removed it.                              *)
C21_AssetDeletedBeforeRecord ==
  [][ \A r \in Reqs :
        ( rq[r].op = "delete" /\ rq'[r] # rq[r] ) =>
          /\ files' # files =>
                /\ rq[r].pc = "handler" /\ rq'[r].pc = "remove"
                /\ db' = db /\ rq[r].id \in DOMAIN db
          /\ db' # db => rq[r].pc = "remove" /\ files' = files
          /\ ( rq[r].pc = "remove" /\ db' = db ) =>
                /\ rq'[r].pc = "done" /\ rq'[r].status = 500
                /\ rq[r].id \in DOMAIN db' /\ db'[rq[r].id] = rq[r].orig
                /\ rq[r].oldDeleted =>
                      AssetName(rq[r].orig.image) \notin files' ]_vars

C21_Witness ==
  \E r \in Reqs :
    /\ backend = "local"
    /\ Done(r) /\ rq[r].op = "delete" /\ rq[r].at = "remove"
    /\ rq[r].status = 500 /\ rq[r].oldDeleted
    /\ rq[r].id \in DOMAIN db /\ db[rq[r].id] = rq[r].orig
    /\ Truthy(db[rq[r].id].image)
    /\ AssetName(db[rq[r].id].image) \in removed \ files

(* C22: on the local routes, with requests served one at a time and no     *)
(* filesystem or database call failing, after every completed create,      *)
(* update, delete or delete-all the assets in the store are exactly the    *)
(* assets named by the images of the stored records.                       *)
C22_StoreMatchesRecords ==
  \A r \in Reqs :
    ( Done(r) /\ rq[r].op \in Mutating ) =>
      files = { AssetName(db[i].image) :
                  i \in { j \in DOMAIN db : Truthy(db[j].image) } }

====
